---- MODULE Spec2Model ----
(***************************************************************************)
(* Model of the two asynchronous database handlers of BD_Classes:          *)
(*   PostgresHandler (src/async_pg.py)     - the pooled backend            *)
(*   SqliteHandler   (src/async_sqlite.py) - the embedded backend          *)
(*                                                                         *)
(* Three specifications share the module:                                  *)
(*   SpecBuild - the pure statement builders applied to bounded inputs     *)
(*   Spec      - one handler of either backend, serving calls one by one   *)
(*   SpecPool  - one PostgresHandler serving concurrent calls, one step    *)
(*               per await point                                           *)
(*                                                                         *)
(* SQL text is modelled by its structure.  A predicate term is             *)
(*   [kind |-> "num",    col |-> c, n |-> k]    for  c = $k                *)
(*   [kind |-> "qmark",  col |-> c, n |-> 0]    for  c = ?                 *)
(*   [kind |-> "isnull", col |-> c, n |-> 0]    for  c IS NULL             *)
(* A dict is the sequence of its items [col |-> c, val |-> v] in           *)
(* insertion order; None is the value Null.                                *)
(***************************************************************************)
EXTENDS Integers, Sequences, FiniteSets, TLC

VARIABLES
    built,       \* SpecBuild: the last builder application, input and output
    backend,     \* Spec: "pg" or "sqlite", the class of the handler
    connection,  \* Spec: self.pool / self.connection: "None" or "open"
    table,       \* Spec: committed rows of the one table, in insertion order
    call,        \* Spec: the last finished call, its statements and outcome
    pool,        \* SpecPool: self.pool: 0 for None, else the id of a pool
    poolState,   \* SpecPool: per pool id, "none", "open", "closing", "closed"
    held,        \* SpecPool: per pool id, the connections acquired from it
    task         \* SpecPool: per task, its position in its call

vars == <<built, backend, connection, table, call, pool, poolState, held, task>>

----------------------------------------------------------------------------
(* Bounds and the universe of inputs *)

MaxConds == 2

Null == "None"
Vals == {"v1", "v2"}
Cols == {"a", "b"}
TableName == "t"
Backends == {"pg", "sqlite"}

Item(c, v) == [col |-> c, val |-> v]

\* every dict over Cols, in every insertion order, with values from vs
DictsOver(vs) ==
    {<<>>}
    \cup {<<Item(c, v)>> : c \in Cols, v \in vs}
    \cup {<<Item(p[1], v1), Item(p[2], v2)>> :
             p \in {q \in Cols \X Cols : q[1] # q[2]}, v1 \in vs, v2 \in vs}

Conditions == DictsOver(Vals \cup {Null})

\* sequences over S of length 0..n
SeqsUpTo(S, n) == UNION {[1..k -> S] : k \in 0..n}

ConditionSets == SeqsUpTo(Conditions, MaxConds)

----------------------------------------------------------------------------
(* Helpers over sequences *)

RECURSIVE Flatten(_)
Flatten(ss) == IF ss = <<>> THEN <<>> ELSE Head(ss) \o Flatten(Tail(ss))

Keys(dict) == [i \in 1..Len(dict) |-> dict[i].col]
Values(dict) == [i \in 1..Len(dict) |-> dict[i].val]
HasKey(dict, c) == \E i \in 1..Len(dict) : dict[i].col = c
Get(dict, c) == dict[CHOOSE i \in 1..Len(dict) : dict[i].col = c].val

Term(k, c, num) == [kind |-> k, col |-> c, n |-> num]

\* one SQL statement; fields a statement kind does not have are empty
Query(k, cols, set, where, limit, ornull) ==
    [kind |-> k, table |-> TableName, cols |-> cols, set |-> set,
     where |-> where, limit |-> limit, ornull |-> ornull]

NoQuery == Query("none", <<>>, <<>>, <<>>, <<>>, <<>>)

\* the placeholder terms of a statement in text order: SET, then WHERE
PlaceholderTerms(q) ==
    LET isPh(t) == t.kind # "isnull"
    IN  SelectSeq(q.set \o Flatten(q.where), isPh)

\* the 1-based position in the parameter list a placeholder term reads:
\* $k reads parameter k, the j-th ? of the text reads parameter j
ParamIndex(q, j) ==
    LET t == PlaceholderTerms(q)[j] IN IF t.kind = "num" THEN t.n ELSE j

----------------------------------------------------------------------------
(* build_select_query *)

NonNullValuesAll(conditions) == Values(conditions)

\* condition_values.extend(value for value in conditions.values() if value is not None)
NonNullValues(conditions) ==
    LET notNone(v) == v # Null IN SelectSeq(Values(conditions), notNone)

\* the generator of one clause, PostgresHandler: enumerate() counts every item
PgSelectClause(conditions, nbound) ==
    [i \in 1..Len(conditions) |->
        IF conditions[i].val # Null
        THEN Term("num", conditions[i].col, nbound + (i - 1) + 1)
        ELSE Term("isnull", conditions[i].col, 0)]

SqliteSelectClause(conditions) ==
    [i \in 1..Len(conditions) |->
        IF conditions[i].val # Null
        THEN Term("qmark", conditions[i].col, 0)
        ELSE Term("isnull", conditions[i].col, 0)]

RECURSIVE PgWhereLoop(_, _, _)
PgWhereLoop(list, where_clauses, condition_values) ==
    IF list = <<>> THEN [clauses |-> where_clauses, values |-> condition_values]
    ELSE LET conditions == Head(list)
         IN  IF conditions # <<>>
             THEN PgWhereLoop(Tail(list),
                      Append(where_clauses, PgSelectClause(conditions, Len(condition_values))),
                      condition_values \o NonNullValues(conditions))
             ELSE PgWhereLoop(Tail(list), where_clauses, condition_values)

RECURSIVE SqliteWhereLoop(_, _, _)
SqliteWhereLoop(list, where_clauses, condition_values) ==
    IF list = <<>> THEN [clauses |-> where_clauses, values |-> condition_values]
    ELSE LET conditions == Head(list)
         IN  IF conditions # <<>>
             THEN SqliteWhereLoop(Tail(list),
                      Append(where_clauses, SqliteSelectClause(conditions)),
                      condition_values \o NonNullValues(conditions))
             ELSE SqliteWhereLoop(Tail(list), where_clauses, condition_values)

SelectLimitAlways(where_clauses, batch_size) ==
    IF batch_size # 0 THEN <<batch_size>> ELSE <<>>

\* LIMIT is appended inside "if where_clauses:", and only "if batch_size:"
SelectLimit(where_clauses, batch_size) ==
    IF where_clauses # <<>> /\ batch_size # 0 THEN <<batch_size>> ELSE <<>>

PgBuildSelectQuery(find_data, where_conditions_list, batch_size) ==
    LET r == PgWhereLoop(where_conditions_list, <<>>, <<>>)
    IN  [query |-> Query("SELECT", find_data, <<>>, r.clauses,
                         SelectLimit(r.clauses, batch_size), <<>>),
         values |-> r.values]

SqliteBuildSelectQuery(find_data, where_conditions_list, batch_size) ==
    LET r == SqliteWhereLoop(where_conditions_list, <<>>, <<>>)
    IN  [query |-> Query("SELECT", find_data, <<>>, r.clauses,
                         SelectLimit(r.clauses, batch_size), <<>>),
         values |-> r.values]

BuildSelectQuery(b, find_data, where_conditions_list, batch_size) ==
    IF b = "pg" THEN PgBuildSelectQuery(find_data, where_conditions_list, batch_size)
    ELSE SqliteBuildSelectQuery(find_data, where_conditions_list, batch_size)

----------------------------------------------------------------------------
(* The statements formed inline by the other operations *)

UpdateSpec(w, u) == [where |-> w, update |-> u]

NumberedTerms(dict, offset) ==
    [i \in 1..Len(dict) |-> Term("num", dict[i].col, offset + (i - 1) + 1)]

QmarkTerms(dict) == [i \in 1..Len(dict) |-> Term("qmark", dict[i].col, 0)]

PgUpdateStatementSetValuesFirst(data) ==
    [query |-> Query("UPDATE", <<>>,
                     NumberedTerms(data.update, Len(data.where)),
                     <<NumberedTerms(data.where, 0)>>, <<>>, <<>>),
     values |-> Values(data.update) \o Values(data.where)]

\* PostgresHandler.mass_update: WHERE is numbered from $1, SET after it, and
\* data_values = list(where_dict.values()) + list(update_dict.values())
PgUpdateStatement(data) ==
    [query |-> Query("UPDATE", <<>>,
                     NumberedTerms(data.update, Len(data.where)),
                     <<NumberedTerms(data.where, 0)>>, <<>>, <<>>),
     values |-> Values(data.where) \o Values(data.update)]

\* SqliteHandler.mass_update: data_values = update_values + where_values
SqliteUpdateStatement(data) ==
    [query |-> Query("UPDATE", <<>>, QmarkTerms(data.update),
                     <<QmarkTerms(data.where)>>, <<>>, <<>>),
     values |-> Values(data.update) \o Values(data.where)]

UpdateStatement(b, data) ==
    IF b = "pg" THEN PgUpdateStatement(data) ELSE SqliteUpdateStatement(data)

\* columns = list(records[0].keys()) if records else []
InsertColumns(records) == IF records # <<>> THEN Keys(records[1]) ELSE <<>>

PgInsertQuery(columns) ==
    Query("INSERT", columns,
          [i \in 1..Len(columns) |-> Term("num", columns[i], (i - 1) + 1)],
          <<>>, <<>>, <<>>)

SqliteInsertQuery(columns) ==
    Query("INSERT", columns,
          [i \in 1..Len(columns) |-> Term("qmark", columns[i], 0)],
          <<>>, <<>>, <<>>)

\* delete_data: a flat AND over every key, null-valued ones included
PgDeleteStatement(where_conditions) ==
    [query |-> Query("DELETE", <<>>, <<>>,
                     IF where_conditions # <<>>
                     THEN <<NumberedTerms(where_conditions, 0)>> ELSE <<>>,
                     <<>>, <<>>),
     values |-> Values(where_conditions)]

SqliteDeleteStatement(where_conditions) ==
    [query |-> Query("DELETE", <<>>, <<>>,
                     IF where_conditions # <<>>
                     THEN <<QmarkTerms(where_conditions)>> ELSE <<>>,
                     <<>>, <<>>),
     values |-> Values(where_conditions)]

\* null_col = [col for col, value in where_conditions.items() if value is None]
NullCols(where_conditions) ==
    LET isNone(it) == it.val = Null IN Keys(SelectSeq(where_conditions, isNone))

\* ' OR {null_col[0]} IS NULL' when null_col is not empty
OrNull(where_conditions) ==
    IF NullCols(where_conditions) # <<>> THEN <<NullCols(where_conditions)[1]>> ELSE <<>>

\* count_records: AND over every key, then the unparenthesized OR ... IS NULL
PgCountStatement(where_conditions) ==
    [query |-> Query("COUNT", <<>>, <<>>,
                     IF where_conditions # <<>>
                     THEN <<NumberedTerms(where_conditions, 0)>> ELSE <<>>,
                     <<>>, OrNull(where_conditions)),
     values |-> Values(where_conditions)]

SqliteCountStatement(where_conditions) ==
    [query |-> Query("COUNT", <<>>, <<>>,
                     IF where_conditions # <<>>
                     THEN <<QmarkTerms(where_conditions)>> ELSE <<>>,
                     <<>>, OrNull(where_conditions)),
     values |-> Values(where_conditions)]

CreateQuery == Query("CREATE", <<"a", "b">>, <<>>, <<>>, <<>>, <<>>)
DeleteAllQuery == Query("DELETE", <<>>, <<>>, <<>>, <<>>, <<>>)

----------------------------------------------------------------------------
(* The engine behind the driver: one table t(a, b).  A row is a function   *)
(* from Cols to values.  Comparison with NULL is never true.               *)

TableCols == <<"a", "b">>

Min(x, y) == IF x < y THEN x ELSE y

IsPlaceholder(t) == t.kind # "isnull"
CountPh(terms) == Len(SelectSeq(terms, IsPlaceholder))

RECURSIVE SumPh(_)
SumPh(clauses) == IF clauses = <<>> THEN 0 ELSE CountPh(Head(clauses)) + SumPh(Tail(clauses))

\* the value bound to term i of where-clause c of statement q
WhereParam(q, params, c, i) ==
    LET j == CountPh(q.set) + SumPh(SubSeq(q.where, 1, c - 1))
             + CountPh(SubSeq(q.where[c], 1, i))
    IN  params[ParamIndex(q, j)]

TermTrue(row, q, params, c, i) ==
    LET t == q.where[c][i]
    IN  IF t.kind = "isnull" THEN row[t.col] = Null
        ELSE /\ row[t.col] # Null
             /\ WhereParam(q, params, c, i) # Null
             /\ row[t.col] = WhereParam(q, params, c, i)

\* AND binds tighter than OR: (clause) OR (clause) ... OR col IS NULL
WhereTrue(row, q, params) ==
    \/ q.where = <<>> /\ q.ornull = <<>>
    \/ \E c \in 1..Len(q.where) : \A i \in 1..Len(q.where[c]) : TermTrue(row, q, params, c, i)
    \/ q.ornull # <<>> /\ row[q.ornull[1]] = Null

\* the engine rejects the statement whatever the data: parameters that do
\* not match the placeholders, an empty column list, an empty SET or WHERE
Rejected(q, params) ==
    \/ {ParamIndex(q, j) : j \in 1..Len(PlaceholderTerms(q))} # 1..Len(params)
    \/ q.kind = "INSERT" /\ q.cols = <<>>
    \/ q.kind = "UPDATE" /\ (q.set = <<>> \/ q.where = << <<>> >>)

RowOf(columns, tuple) ==
    [c \in Cols |-> IF \E i \in 1..Len(columns) : columns[i] = c
                    THEN tuple[CHOOSE i \in 1..Len(columns) : columns[i] = c]
                    ELSE Null]

Matching(rows, q, params) ==
    LET hit(r) == WhereTrue(r, q, params) IN SelectSeq(rows, hit)

NotMatching(rows, q, params) ==
    LET miss(r) == ~WhereTrue(r, q, params) IN SelectSeq(rows, miss)

\* UPDATE: the SET parameters are read through their placeholders
Updated(rows, q, params) ==
    LET newVal(r, c) ==
            IF \E i \in 1..Len(q.set) : q.set[i].col = c
            THEN params[ParamIndex(q, CHOOSE i \in 1..Len(q.set) :
                                         /\ q.set[i].col = c
                                         /\ \A k \in (i + 1)..Len(q.set) : q.set[k].col # c)]
            ELSE r[c]
    IN  [k \in 1..Len(rows) |->
            IF WhereTrue(rows[k], q, params)
            THEN [c \in Cols |-> newVal(rows[k], c)] ELSE rows[k]]

----------------------------------------------------------------------------
(* The batch loops *)

BatchShort(list, i, batch_size) == SubSeq(list, i + 1, Min(i + batch_size, Len(list)) - 1)

\* batch = records[i:i + batch_size]
Batch(list, i, batch_size) == SubSeq(list, i + 1, Min(i + batch_size, Len(list)))

\* values = [tuple(record[col] for col in columns) for record in batch];
\* record[col] raises KeyError when the record lacks the column
HasColumns(record, columns) == \A k \in 1..Len(columns) : HasKey(record, columns[k])
TupleOf(record, columns) == [k \in 1..Len(columns) |-> Get(record, columns[k])]
TuplesOf(batch, columns) == [r \in 1..Len(batch) |-> TupleOf(batch[r], columns)]

\* one call of the driver, as issued: ok is FALSE when it raised
DriverCall(f, q, a, succeeded) == [fn |-> f, query |-> q, args |-> a, ok |-> succeeded]

\* for i in range(0, len(records), batch_size), batch_size > 0: the state of
\* the loop is the calls issued so far, the rows written so far and whether
\* an exception left the loop.  faults: the ordinals of the calls the driver fails.
RECURSIVE InsertLoop(_, _, _, _, _, _)
InsertLoop(records, columns, query, batch_size, faults, st) ==
    IF st.err # "" \/ st.i >= Len(records) THEN st
    ELSE LET batch == Batch(records, st.i, batch_size)
             n == Len(st.log) + 1
         IN  IF \E r \in 1..Len(batch) : ~HasColumns(batch[r], columns)
             THEN [st EXCEPT !.err = "KeyError"]
             ELSE LET values == TuplesOf(batch, columns)
                      fails == n \in faults
                              \/ \E r \in 1..Len(values) : Rejected(query, values[r])
                      written == [r \in 1..Len(values) |-> RowOf(columns, values[r])]
                  IN  InsertLoop(records, columns, query, batch_size, faults,
                         [i |-> st.i + batch_size,
                          log |-> Append(st.log, DriverCall("executemany", query, values, ~fails)),
                          rows |-> IF fails THEN st.rows ELSE st.rows \o written,
                          err |-> IF fails THEN "StatementError" ELSE ""])

\* range(0, n, 0) raises ValueError; a negative step gives an empty range
RunInsertLoop(records, columns, query, batch_size, faults, rows) ==
    LET st0 == [i |-> 0, log |-> <<>>, rows |-> rows, err |-> ""]
    IN  IF batch_size = 0 THEN [st0 EXCEPT !.err = "ValueError"]
        ELSE IF batch_size < 0 THEN st0
        ELSE InsertLoop(records, columns, query, batch_size, faults, st0)

\* try: conn.execute(query, *data_values) / except Exception: log
UpdateOne(b, data, faults, st) ==
    LET stm == UpdateStatement(b, data)
        fails == (Len(st.log) + 1) \in faults \/ Rejected(stm.query, stm.values)
    IN  [st EXCEPT !.log = Append(st.log, DriverCall("execute", stm.query, <<stm.values>>, ~fails)),
                   !.rows = IF fails THEN st.rows ELSE Updated(st.rows, stm.query, stm.values)]

RECURSIVE UpdateBatchAbort(_, _, _, _)
UpdateBatchAbort(b, batch, faults, st) ==
    IF batch = <<>> \/ (st.log # <<>> /\ ~st.log[Len(st.log)].ok) THEN st
    ELSE UpdateBatchAbort(b, Tail(batch), faults, UpdateOne(b, Head(batch), faults, st))

\* for data in batch: a failed execute is caught inside the loop body
RECURSIVE UpdateBatch(_, _, _, _)
UpdateBatch(b, batch, faults, st) ==
    IF batch = <<>> THEN st
    ELSE UpdateBatch(b, Tail(batch), faults, UpdateOne(b, Head(batch), faults, st))

\* for i in range(0, len(data_list), batch_size), batch_size > 0
RECURSIVE UpdateLoop(_, _, _, _, _)
UpdateLoop(b, data_list, batch_size, faults, st) ==
    IF st.i >= Len(data_list) THEN st
    ELSE UpdateLoop(b, data_list, batch_size, faults,
            [UpdateBatch(b, Batch(data_list, st.i, batch_size), faults, st)
                EXCEPT !.i = st.i + batch_size])

RunUpdateLoop(b, data_list, batch_size, faults, rows) ==
    LET st0 == [i |-> 0, log |-> <<>>, rows |-> rows, err |-> ""]
    IN  IF batch_size = 0 THEN [st0 EXCEPT !.err = "ValueError"]
        ELSE IF batch_size < 0 THEN st0
        ELSE UpdateLoop(b, data_list, batch_size, faults, st0)

----------------------------------------------------------------------------
(* The public operations.  Each takes the handle and the committed rows as *)
(* the call finds them, the arguments, and the faults of the environment   *)
(* (fault.connect: establishing the connection fails; fault.exec: the      *)
(* ordinals of the driver calls that raise), and gives the handle and the  *)
(* rows as the call leaves them, the driver calls it issued, the number of *)
(* connection establishments it attempted and its outcome.                 *)

Fault(c, e) == [connect |-> c, exec |-> e]

Outcome(k, st, n, rs) == [kind |-> k, status |-> st, count |-> n, rows |-> rs]
Return(st) == Outcome("return", st, 0, <<>>)
Raise(exc) == Outcome("raise", exc, 0, <<>>)

Result(conn, rows, log, connects, outcome) ==
    [connection |-> conn, table |-> rows, log |-> log, connects |-> connects,
     outcome |-> outcome]

\* connect(): establishes the handle only when it is None
Establishes(conn) == IF conn = "None" THEN 1 ELSE 0
ConnectRaises(conn, fault) == conn = "None" /\ fault.connect

\* one driver call outside a loop
Fails(q, params, fault) == 1 \in fault.exec \/ Rejected(q, params)

\* the columns a select list names, '*' being every column of the table
RECURSIVE ExpandedCols(_)
ExpandedCols(find_data) ==
    IF find_data = <<>> THEN <<>>
    ELSE (IF Head(find_data) = "*" THEN TableCols ELSE <<Head(find_data)>>)
         \o ExpandedCols(Tail(find_data))

Limited(rows, limit) ==
    IF limit = <<>> THEN rows ELSE SubSeq(rows, 1, Min(limit[1], Len(rows)))

Fetched(rows, q, params) == Limited(Matching(rows, q, params), q.limit)

\* dict(row) for row in result: an asyncpg Record is keyed by its columns
PgResultList(find_data, fetched) ==
    LET cols == ExpandedCols(find_data)
    IN  [r \in 1..Len(fetched) |-> [k \in 1..Len(cols) |-> Item(cols[k], fetched[r][cols[k]])]]

\* dict(zip(find_data, row)): the row tuple is zipped with the select list
SqliteResultList(find_data, fetched) ==
    LET cols == ExpandedCols(find_data)
    IN  [r \in 1..Len(fetched) |->
            [k \in 1..Min(Len(find_data), Len(cols)) |->
                Item(find_data[k], fetched[r][cols[k]])]]

(* ---- PostgresHandler ---- *)

PgCreateTables(conn, rows, fault) ==
    IF ConnectRaises(conn, fault)
    THEN Result("None", rows, <<>>, 1, Raise("ConnectionError"))
    ELSE LET fails == Fails(CreateQuery, <<>>, fault)
         IN  Result("open", rows, <<DriverCall("execute", CreateQuery, <<<<>>>>, ~fails)>>,
                    Establishes(conn), IF fails THEN Return("error") ELSE Return("ok"))

PgMassUpdate(conn, rows, data_list, batch_size, fault) ==
    IF ConnectRaises(conn, fault)
    THEN Result("None", rows, <<>>, 1, Raise("ConnectionError"))
    ELSE LET st == RunUpdateLoop("pg", data_list, batch_size, fault.exec, rows)
         IN  Result("open", st.rows, st.log, Establishes(conn),
                    IF st.err # "" THEN Raise(st.err) ELSE Return("None"))

PgInsertIntoTableBulk(conn, rows, records, batch_size, fault) ==
    IF ConnectRaises(conn, fault)
    THEN Result("None", rows, <<>>, 1, Raise("ConnectionError"))
    ELSE LET columns == InsertColumns(records)
             st == RunInsertLoop(records, columns, PgInsertQuery(columns), batch_size,
                                 fault.exec, rows)
         IN  Result("open", st.rows, st.log, Establishes(conn),
                    IF st.err # "" THEN Return("error") ELSE Return("ok"))

\* finally: await self.close(), on the return and on the raise
PgSelectData(conn, rows, find_data, where_conditions_list, batch_size, fault) ==
    IF ConnectRaises(conn, fault)
    THEN Result("None", rows, <<>>, 1, Raise("ConnectionError"))
    ELSE LET b == PgBuildSelectQuery(find_data, where_conditions_list, batch_size)
             fails == Fails(b.query, b.values, fault)
         IN  Result("None", rows, <<DriverCall("fetch", b.query, <<b.values>>, ~fails)>>,
                    Establishes(conn),
                    IF fails THEN Raise("StatementError")
                    ELSE Outcome("return", "rows", 0,
                                 PgResultList(find_data, Fetched(rows, b.query, b.values))))

\* connect() is inside the try: its failure is returned as a string
PgDeleteData(conn, rows, where_conditions, fault) ==
    IF ConnectRaises(conn, fault)
    THEN Result("None", rows, <<>>, 1, Return("error"))
    ELSE LET stm == PgDeleteStatement(where_conditions)
             fails == Fails(stm.query, stm.values, fault)
         IN  Result("open",
                    IF fails THEN rows ELSE NotMatching(rows, stm.query, stm.values),
                    <<DriverCall("execute", stm.query, <<stm.values>>, ~fails)>>,
                    Establishes(conn), IF fails THEN Return("error") ELSE Return("ok"))

PgDeleteAllDataFromTable(conn, rows, fault) ==
    IF ConnectRaises(conn, fault)
    THEN Result("None", rows, <<>>, 1, Raise("ConnectionError"))
    ELSE LET fails == Fails(DeleteAllQuery, <<>>, fault)
         IN  Result("open", IF fails THEN rows ELSE <<>>,
                    <<DriverCall("execute", DeleteAllQuery, <<<<>>>>, ~fails)>>,
                    Establishes(conn), IF fails THEN Return("error") ELSE Return("ok"))

\* valid: table_name is not empty and where_conditions is a dict
PgCountRecords(conn, rows, valid, where_conditions, fault) ==
    IF ~valid THEN Result(conn, rows, <<>>, 0, Raise("ValueError"))
    ELSE IF ConnectRaises(conn, fault)
    THEN Result("None", rows, <<>>, 1, Raise("ConnectionError"))
    ELSE LET stm == PgCountStatement(where_conditions)
             fails == Fails(stm.query, stm.values, fault)
         IN  Result("open", rows,
                    <<DriverCall("fetchval", stm.query, <<stm.values>>, ~fails)>>,
                    Establishes(conn),
                    IF fails THEN Raise("StatementError")
                    ELSE Outcome("return", "count",
                                 Len(Matching(rows, stm.query, stm.values)), <<>>))

(* ---- SqliteHandler: writes are pending until connection.commit();      *)
(* ---- connection.close() drops what is pending                          *)

SqliteCreateTables(conn, rows, fault) ==
    IF ConnectRaises(conn, fault)
    THEN Result("None", rows, <<>>, 1, Raise("ConnectionError"))
    ELSE LET fails == Fails(CreateQuery, <<>>, fault)
         IN  Result("None", rows, <<DriverCall("execute", CreateQuery, <<<<>>>>, ~fails)>>,
                    Establishes(conn), IF fails THEN Return("error") ELSE Return("ok"))

\* the ValueError of range() is caught by the outer except; commit is skipped
SqliteMassUpdate(conn, rows, data_list, batch_size, fault) ==
    IF ConnectRaises(conn, fault)
    THEN Result("None", rows, <<>>, 1, Raise("ConnectionError"))
    ELSE LET st == RunUpdateLoop("sqlite", data_list, batch_size, fault.exec, rows)
         IN  Result("None", IF st.err # "" THEN rows ELSE st.rows, st.log,
                    Establishes(conn), Return("None"))

\* as if every executemany were committed on its own
SqliteInsertIntoTableBulkAutocommit(conn, rows, records, batch_size, fault) ==
    IF ConnectRaises(conn, fault)
    THEN Result("None", rows, <<>>, 1, Raise("ConnectionError"))
    ELSE LET columns == InsertColumns(records)
             st == RunInsertLoop(records, columns, SqliteInsertQuery(columns), batch_size,
                                 fault.exec, rows)
         IN  Result("None", st.rows, st.log, Establishes(conn),
                    IF st.err # "" THEN Return("error") ELSE Return("ok"))

\* self.connection.commit() comes after the loop; an exception in the loop
\* goes to except and finally: close() without commit drops what the
\* chunks before it wrote
SqliteInsertIntoTableBulk(conn, rows, records, batch_size, fault) ==
    IF ConnectRaises(conn, fault)
    THEN Result("None", rows, <<>>, 1, Raise("ConnectionError"))
    ELSE LET columns == InsertColumns(records)
             st == RunInsertLoop(records, columns, SqliteInsertQuery(columns), batch_size,
                                 fault.exec, rows)
         IN  Result("None", IF st.err # "" THEN rows ELSE st.rows, st.log,
                    Establishes(conn),
                    IF st.err # "" THEN Return("error") ELSE Return("ok"))

SqliteSelectData(conn, rows, find_data, where_conditions_list, batch_size, fault) ==
    IF ConnectRaises(conn, fault)
    THEN Result("None", rows, <<>>, 1, Raise("ConnectionError"))
    ELSE LET b == SqliteBuildSelectQuery(find_data, where_conditions_list, batch_size)
             fails == Fails(b.query, b.values, fault)
         IN  Result("None", rows, <<DriverCall("execute", b.query, <<b.values>>, ~fails)>>,
                    Establishes(conn),
                    IF fails THEN Raise("StatementError")
                    ELSE Outcome("return", "rows", 0,
                                 SqliteResultList(find_data, Fetched(rows, b.query, b.values))))

SqliteDeleteData(conn, rows, where_conditions, fault) ==
    IF ConnectRaises(conn, fault)
    THEN Result("None", rows, <<>>, 1, Return("error"))
    ELSE LET stm == SqliteDeleteStatement(where_conditions)
             fails == Fails(stm.query, stm.values, fault)
         IN  Result("None",
                    IF fails THEN rows ELSE NotMatching(rows, stm.query, stm.values),
                    <<DriverCall("execute", stm.query, <<stm.values>>, ~fails)>>,
                    Establishes(conn), IF fails THEN Return("error") ELSE Return("ok"))

\* no finally: the connection stays open after the call
SqliteDeleteAllDataFromTable(conn, rows, fault) ==
    IF ConnectRaises(conn, fault)
    THEN Result("None", rows, <<>>, 1, Raise("ConnectionError"))
    ELSE LET fails == Fails(DeleteAllQuery, <<>>, fault)
         IN  Result("open", IF fails THEN rows ELSE <<>>,
                    <<DriverCall("execute", DeleteAllQuery, <<<<>>>>, ~fails)>>,
                    Establishes(conn), IF fails THEN Return("error") ELSE Return("ok"))

\* cursor.execute(...).fetchval(): sqlite3.Cursor has no fetchval, so the
\* attribute lookup raises AttributeError after the statement ran
SqliteCountRecords(conn, rows, valid, where_conditions, fault) ==
    IF ~valid THEN Result(conn, rows, <<>>, 0, Raise("ValueError"))
    ELSE IF ConnectRaises(conn, fault)
    THEN Result("None", rows, <<>>, 1, Raise("ConnectionError"))
    ELSE LET stm == SqliteCountStatement(where_conditions)
             fails == Fails(stm.query, stm.values, fault)
         IN  Result("None", rows,
                    <<DriverCall("execute", stm.query, <<stm.values>>, ~fails)>>,
                    Establishes(conn),
                    IF fails THEN Raise("StatementError") ELSE Raise("AttributeError"))

----------------------------------------------------------------------------
(* SpecBuild: the builders applied to every bounded input *)

DefaultBatchSize == 1000

FindDatas == {<<"*">>, <<"a">>}
SelectBatchSizes == {0, 1, DefaultBatchSize}
BuildBatchSizes == SelectBatchSizes \cup {0 - 1}
UpdateSpecs == {UpdateSpec(w, u) : w \in Conditions, u \in DictsOver(Vals \cup {Null})}

\* an input of a builder, before the builder is applied
BuildInput(f, b, fd, cs, d, bs) ==
    [fn |-> f, backend |-> b, find_data |-> fd, conds |-> cs, data |-> d,
     batch_size |-> bs, done |-> FALSE, query |-> NoQuery, values |-> <<>>]

BuildSelect ==
    /\ built.fn = "select" /\ ~built.done
    /\ LET r == BuildSelectQuery(built.backend, built.find_data, built.conds,
                                 built.batch_size)
       IN  built' = [built EXCEPT !.done = TRUE, !.query = r.query, !.values = r.values]
    /\ UNCHANGED <<backend, connection, table, call, pool, poolState, held, task>>

BuildUpdate ==
    /\ built.fn = "update" /\ ~built.done
    /\ LET r == UpdateStatement(built.backend, built.data)
       IN  built' = [built EXCEPT !.done = TRUE, !.query = r.query, !.values = r.values]
    /\ UNCHANGED <<backend, connection, table, call, pool, poolState, held, task>>

Args(records, data_list, find_data, conds, cond, batch_size, valid) ==
    [records |-> records, data_list |-> data_list, find_data |-> find_data,
     conds |-> conds, cond |-> cond, batch_size |-> batch_size, valid |-> valid]

NoArgs == Args(<<>>, <<>>, <<>>, <<>>, <<>>, 0, TRUE)

\* no call is finished and waiting for the caller
NoCall ==
    [op |-> "none", args |-> NoArgs, fault |-> Fault(FALSE, {}), before |-> <<>>,
     log |-> <<>>, connects |-> 0, outcome |-> Return("None")]

HandlerIdle ==
    /\ backend = "pg" /\ connection = "None" /\ table = <<>> /\ call = NoCall

PoolIdle ==
    /\ pool = 0 /\ poolState = <<>> /\ held = <<>> /\ task = <<>>

InitBuild ==
    /\ \/ \E b \in Backends, fd \in FindDatas, cs \in ConditionSets, bs \in BuildBatchSizes :
             built = BuildInput("select", b, fd, cs, UpdateSpec(<<>>, <<>>), bs)
       \/ \E b \in Backends, d \in UpdateSpecs :
             built = BuildInput("update", b, <<>>, <<>>, d, 0)
    /\ HandlerIdle /\ PoolIdle

NextBuild ==
    \/ BuildSelect
    \/ BuildUpdate

SpecBuild == InitBuild /\ [][NextBuild]_vars

----------------------------------------------------------------------------
(* Spec: one handler, calls served one after the other.  An operation is   *)
(* one action: it runs from the call to the return or the raise.  call     *)
(* keeps the finished call for the caller, who then resumes.               *)

MaxRecords == 3
MaxUpdates == 2
MaxBatch == 2
MaxRows == 3

RecordPool == { <<Item("a", "v1"), Item("b", "v1")>>, <<Item("a", "v2")>> }
UpdatePool == { UpdateSpec(<<Item("a", "v1")>>, <<Item("b", "v2")>>),
                UpdateSpec(<<>>, <<Item("b", "v1")>>) }
SelectPool == { <<>>, << <<>>, <<>> >>,
                << <<Item("a", "v1")>> >>, << <<Item("b", Null), Item("a", "v1")>> >>,
                << <<Item("a", "v2"), Item("b", Null)>>, <<>>, <<Item("b", "v1")>> >> }

RecordLists == SeqsUpTo(RecordPool, MaxRecords)
UpdateLists == SeqsUpTo(UpdatePool, MaxUpdates)
BatchSizes == ((0 - 1)..MaxBatch) \cup {DefaultBatchSize}

\* the faults a call with at most n driver calls can meet; a loop over n
\* items in batches issues no call when range() is empty or raises
LoopCalls(n, batch_size) == IF batch_size <= 0 THEN 0 ELSE n
LoopBatches(n, batch_size) ==
    IF batch_size <= 0 THEN 0 ELSE (n + batch_size - 1) \div batch_size
ConnectFaults == IF connection = "None" THEN BOOLEAN ELSE {FALSE}
OneFault(n) == {{}} \cup {{k} : k \in 1..n}
AnyFaults(n) == SUBSET (1..n)

Call(name, args, fault, res) ==
    [op |-> name, args |-> args, fault |-> fault, before |-> table,
     log |-> res.log, connects |-> res.connects, outcome |-> res.outcome]


Finish(name, args, fault, res) ==
    /\ Len(res.table) <= MaxRows
    /\ connection' = res.connection
    /\ table' = res.table
    /\ call' = Call(name, args, fault, res)
    /\ UNCHANGED <<built, backend, pool, poolState, held, task>>

CreateTables ==
    /\ call = NoCall
    /\ \E c \in ConnectFaults, e \in OneFault(1) :
          Finish("create_tables", NoArgs, Fault(c, e),
                 IF backend = "pg" THEN PgCreateTables(connection, table, Fault(c, e))
                 ELSE SqliteCreateTables(connection, table, Fault(c, e)))

MassUpdate ==
    /\ call = NoCall
    /\ \E data_list \in UpdateLists, batch_size \in BatchSizes, c \in ConnectFaults :
       \E e \in AnyFaults(LoopCalls(Len(data_list), batch_size)) :
          Finish("mass_update", [NoArgs EXCEPT !.data_list = data_list,
                                               !.batch_size = batch_size], Fault(c, e),
                 IF backend = "pg"
                 THEN PgMassUpdate(connection, table, data_list, batch_size, Fault(c, e))
                 ELSE SqliteMassUpdate(connection, table, data_list, batch_size, Fault(c, e)))

InsertIntoTableBulk ==
    /\ call = NoCall
    /\ \E records \in RecordLists, batch_size \in BatchSizes, c \in ConnectFaults :
       \E e \in OneFault(LoopBatches(Len(records), batch_size)) :
          Finish("insert_into_table_bulk", [NoArgs EXCEPT !.records = records,
                                                          !.batch_size = batch_size],
                 Fault(c, e),
                 IF backend = "pg"
                 THEN PgInsertIntoTableBulk(connection, table, records, batch_size, Fault(c, e))
                 ELSE SqliteInsertIntoTableBulk(connection, table, records, batch_size,
                                                Fault(c, e)))

SelectData ==
    /\ call = NoCall
    /\ \E find_data \in FindDatas, conds \in SelectPool, batch_size \in SelectBatchSizes,
          c \in ConnectFaults, e \in OneFault(1) :
          Finish("select_data", [NoArgs EXCEPT !.find_data = find_data, !.conds = conds,
                                               !.batch_size = batch_size], Fault(c, e),
                 IF backend = "pg"
                 THEN PgSelectData(connection, table, find_data, conds, batch_size, Fault(c, e))
                 ELSE SqliteSelectData(connection, table, find_data, conds, batch_size,
                                       Fault(c, e)))

DeleteData ==
    /\ call = NoCall
    /\ \E cond \in Conditions, c \in ConnectFaults, e \in OneFault(1) :
          Finish("delete_data", [NoArgs EXCEPT !.cond = cond], Fault(c, e),
                 IF backend = "pg" THEN PgDeleteData(connection, table, cond, Fault(c, e))
                 ELSE SqliteDeleteData(connection, table, cond, Fault(c, e)))

DeleteAllDataFromTable ==
    /\ call = NoCall
    /\ \E c \in ConnectFaults, e \in OneFault(1) :
          Finish("delete_all_data_from_table", NoArgs, Fault(c, e),
                 IF backend = "pg" THEN PgDeleteAllDataFromTable(connection, table, Fault(c, e))
                 ELSE SqliteDeleteAllDataFromTable(connection, table, Fault(c, e)))

CountRecords ==
    /\ call = NoCall
    /\ \E cond \in Conditions, valid \in BOOLEAN, c \in ConnectFaults, e \in OneFault(1) :
          /\ ~valid => (cond = <<>> /\ ~c /\ e = {})
          /\ Finish("count_records", [NoArgs EXCEPT !.cond = cond, !.valid = valid],
                    Fault(c, e),
                    IF backend = "pg"
                    THEN PgCountRecords(connection, table, valid, cond, Fault(c, e))
                    ELSE SqliteCountRecords(connection, table, valid, cond, Fault(c, e)))

\* the caller takes the result or the exception and goes on
CallerResumes ==
    /\ call # NoCall
    /\ call' = NoCall
    /\ UNCHANGED <<built, backend, connection, table, pool, poolState, held, task>>

BuildIdle == built = BuildInput("none", "pg", <<>>, <<>>, UpdateSpec(<<>>, <<>>), 0)

Init ==
    /\ backend \in Backends
    /\ connection = "None"
    /\ table = <<>>
    /\ call = NoCall
    /\ BuildIdle /\ PoolIdle

Next ==
    \/ CreateTables
    \/ MassUpdate
    \/ InsertIntoTableBulk
    \/ SelectData
    \/ DeleteData
    \/ DeleteAllDataFromTable
    \/ CountRecords
    \/ CallerResumes

Spec == Init /\ [][Next]_vars

----------------------------------------------------------------------------
(* Claims on the builders *)

UpTo(n) == [i \in 1..n |-> i]

PlaceholderNumbers(q) ==
    [j \in 1..Len(PlaceholderTerms(q)) |-> PlaceholderTerms(q)[j].n]

\* C2: the numbered placeholders of a statement compiled by the pooled
\* backend's select builder are exactly $1, $2, ..., $n from left to right,
\* where n is the number of bound values (no gap, no reuse).
C2_PlaceholdersSequential ==
    (built.fn = "select" /\ built.done /\ built.backend = "pg")
        => PlaceholderNumbers(built.query) = UpTo(Len(built.values))

\* C3: the bound values of the select builder (both backends) are exactly the
\* non-null values of the Conditions, in Condition order and column iteration
\* order; no bound value is null; every null-valued column appears in the
\* predicate as "column IS NULL" and every other column as an equality.
C3_BindsExactlyNonNull ==
    (built.fn = "select" /\ built.done) =>
        LET items == Flatten(built.conds)
            notNone(it) == it.val # Null
            bound == SelectSeq(items, notNone)
            terms == Flatten(built.query.where)
        IN  /\ built.values = [i \in 1..Len(bound) |-> bound[i].val]
            /\ \A i \in 1..Len(built.values) : built.values[i] # Null
            /\ Len(terms) = Len(items)
            /\ \A j \in 1..Len(items) :
                  /\ terms[j].col = items[j].col
                  /\ (terms[j].kind = "isnull") <=> (items[j].val = Null)

C3_Witness ==
    /\ built.fn = "select" /\ built.done /\ built.backend = "sqlite"
    /\ built.conds = << <<Item("a", Null), Item("b", "v2")>>,
                        <<Item("b", "v1"), Item("a", Null)>> >>
    /\ built.values = <<"v2", "v1">>

\* the value the j-th placeholder of the text reads from the bound list
BoundTo(j) == built.values[ParamIndex(built.query, j)]

\* C4 as stated: on either backend the SET columns are bound first, as
\* parameters 1..k in column order, the where columns next from k+1, and the
\* bound list is the update values followed by the where values.
C4_SetBoundFirst ==
    (built.fn = "update" /\ built.done) =>
        LET u == built.data.update
            w == built.data.where
            k == Len(u)
            ph == PlaceholderTerms(built.query)
        IN  /\ Len(ph) = k + Len(w)
            /\ \A i \in 1..k : ph[i].col = u[i].col /\ ParamIndex(built.query, i) = i
            /\ \A j \in 1..Len(w) :
                  ph[k + j].col = w[j].col /\ ParamIndex(built.query, k + j) = k + j
            /\ built.values = Values(u) \o Values(w)

\* C4 amended: on both backends every placeholder reads the value of its own
\* column from the bound list.  On the embedded backend the SET columns are
\* parameters 1..k and the where columns k+1..k+m, the bound list being the
\* update values then the where values; on the pooled backend the where
\* columns are $1..$m and the SET columns $m+1..$m+k, the bound list being the
\* where values then the update values.
C4_Amended ==
    (built.fn = "update" /\ built.done) =>
        LET u == built.data.update
            w == built.data.where
            k == Len(u)
            m == Len(w)
            ph == PlaceholderTerms(built.query)
        IN  /\ Len(ph) = k + m /\ Len(built.values) = k + m
            /\ \A i \in 1..k : ph[i].col = u[i].col /\ BoundTo(i) = u[i].val
            /\ \A j \in 1..m : ph[k + j].col = w[j].col /\ BoundTo(k + j) = w[j].val
            /\ built.backend = "sqlite" =>
                  /\ \A i \in 1..(k + m) : ParamIndex(built.query, i) = i
                  /\ built.values = Values(u) \o Values(w)
            /\ built.backend = "pg" =>
                  /\ \A j \in 1..m : ParamIndex(built.query, k + j) = j
                  /\ \A i \in 1..k : ParamIndex(built.query, i) = m + i
                  /\ built.values = Values(w) \o Values(u)

C4_Witness ==
    /\ built.fn = "update" /\ built.done /\ built.backend = "pg"
    /\ built.data = UpdateSpec(<<Item("a", "v1")>>, <<Item("b", "v2"), Item("a", "v2")>>)
    /\ built.values = <<"v1", "v2", "v2">>

----------------------------------------------------------------------------
(* Claims on the operations *)

CeilDiv(n, d) == (n + d - 1) \div d

\* the value tuple of a record, total: a missing column shows as such
ValueTuple(record, columns) ==
    [k \in 1..Len(columns) |->
        IF HasKey(record, columns[k]) THEN Get(record, columns[k]) ELSE "missing"]

C5_EveryUpdateAttempted ==
    (call.op = "mass_update" /\ call.args.batch_size >= 1 /\ call.outcome.status # "ConnectionError") =>
        /\ Len(call.log) = Len(call.args.data_list)
        /\ \A k \in 1..Len(call.log) :
              /\ call.log[k].fn = "execute"
              /\ call.log[k].query = UpdateStatement(backend, call.args.data_list[k]).query
              /\ call.log[k].args = <<UpdateStatement(backend, call.args.data_list[k]).values>>
        /\ call.outcome.kind = "return"

C5_Witness ==
    /\ call.op = "mass_update" /\ call.args.batch_size = 1
    /\ Len(call.args.data_list) = 2
    /\ call.fault.exec = {1}
    /\ Len(call.log) = 2 /\ ~call.log[1].ok /\ call.log[2].ok
    /\ call.outcome.kind = "return"

\* C7: on the embedded backend, whenever an operation has finished, by
\* returning or by raising, the connection is None again.
C7_ClosedAfterEveryCall ==
    (backend = "sqlite" /\ call.op # "none") => connection = "None"

\* C8: insert_into_table_bulk and mass_update with a non-empty list and a
\* batch size of 0 or less report an error (a raise or an error result,
\* never "ok" or a normal return) and execute no statement.
C8_NonPositiveBatchRejected ==
    (/\ call.op \in {"insert_into_table_bulk", "mass_update"}
     /\ call.args.batch_size <= 0
     /\ (call.args.records # <<>> \/ call.args.data_list # <<>>)) =>
        /\ call.log = <<>>
        /\ call.outcome.kind = "raise" \/ call.outcome.status = "error"

\* C9: in every public operation a failure to establish the connection is
\* raised to the caller as a connection error, never returned as a status,
\* and the establishment is attempted exactly once.
C9_ConnectFailureRaised ==
    (call.op # "none" /\ call.fault.connect /\ call.connects > 0) =>
        /\ call.outcome = Raise("ConnectionError")
        /\ call.connects = 1

\* C10: count_records on either backend (valid arguments, no fault of the
\* environment): with a Condition of one non-null column a = v and one
\* null-valued column b it returns the number of rows with
\* (a = v AND b = NULL) OR b IS NULL, that is of the rows whose b is null;
\* with an empty Condition it returns the number of rows of the table.
C10_CountLooseOr ==
    (/\ call.op = "count_records" /\ call.args.valid
     /\ ~call.fault.connect /\ call.fault.exec = {}) =>
        LET cond == call.args.cond
            bNull(b) == LET isNull(r) == r[b] = Null IN Len(SelectSeq(table, isNull))
        IN  /\ cond = <<>> => call.outcome = Outcome("return", "count", Len(table), <<>>)
            /\ \A i \in 1..Len(cond) :
                  (Len(cond) = 2 /\ cond[i].val = Null /\ cond[3 - i].val # Null) =>
                      call.outcome = Outcome("return", "count", bNull(cond[i].col), <<>>)

\* the same, for the pooled backend alone
C10_PgCountLooseOr == backend = "pg" => C10_CountLooseOr

\* the Record of a row under a requested column list: one key per requested
\* column, every column of the table when the list is ["*"]
RecordOf(row, find_data) ==
    LET cols == IF find_data = <<"*">> THEN TableCols ELSE find_data
    IN  [k \in 1..Len(cols) |-> Item(cols[k], row[cols[k]])]

\* the rows with a = v, a standing for the primary key
RowsWithKey(rows, v) == LET hit(r) == r["a"] = v IN SelectSeq(rows, hit)

\* C11: select_data on either backend, when it returns: the result has one
\* Record per row the engine gave for the executed statement, in the
\* engine's order, keyed by the requested column list, and by all columns
\* of the table when the list is ["*"]; so a select by the key a = v, when
\* exactly one stored row has that key, returns exactly one Record, equal
\* to the stored row on every column of the table.
C11_SelectRecords ==
    (call.op = "select_data" /\ call.outcome.kind = "return") =>
        LET find_data == call.args.find_data
            result == call.outcome.rows
            engine == Fetched(table, call.log[1].query, call.log[1].args[1])
        IN  /\ Len(result) = Len(engine)
            /\ \A k \in 1..Len(engine) : result[k] = RecordOf(engine[k], find_data)
            /\ \A v \in Vals :
                  (/\ call.args.conds = << <<Item("a", v)>> >>
                   /\ find_data = <<"*">>
                   /\ Len(RowsWithKey(table, v)) = 1) =>
                      /\ Len(result) = 1
                      /\ \A c \in Cols :
                            /\ HasKey(result[1], c)
                            /\ Get(result[1], c) = RowsWithKey(table, v)[1][c]

\* the same, for the pooled backend alone
C11_PgSelectRecords == backend = "pg" => C11_SelectRecords

\* the pooled backend returns the inserted record on a select by its key
C11_PgRoundTrip ==
    /\ backend = "pg" /\ call.op = "select_data"
    /\ call.args.conds = << <<Item("a", "v1")>> >> /\ call.args.find_data = <<"*">>
    /\ table = <<RowOf(<<"a", "b">>, <<"v1", "v1">>), RowOf(<<"a">>, <<"v2">>)>>
    /\ call.outcome.rows = << <<Item("a", "v1"), Item("b", "v1")>> >>

\* a ConditionSet that emits a predicate clause: one of its Conditions is not empty
EmitsClause(conds) == \E i \in 1..Len(conds) : conds[i] # <<>>

ResultList(b, find_data, fetched) ==
    IF b = "pg" THEN PgResultList(find_data, fetched) ELSE SqliteResultList(find_data, fetched)

\* C12: select_data on either backend, in the statement it executes: LIMIT
\* <batch_size> is there if and only if the batch size is not zero and the
\* ConditionSet emits a clause, and WHERE is there if and only if it emits a
\* clause; with an empty ConditionSet, or one whose Conditions are all
\* empty, the statement has neither and the call, when it returns, returns
\* every row of the table, whatever the batch size.
C12_LimitOnlyWithPredicate ==
    (call.op = "select_data" /\ call.log # <<>>) =>
        LET q == call.log[1].query
            conds == call.args.conds
            batch_size == call.args.batch_size
        IN  /\ q.limit # <<>> <=> (batch_size # 0 /\ EmitsClause(conds))
            /\ q.limit # <<>> => q.limit = <<batch_size>>
            /\ q.where # <<>> <=> EmitsClause(conds)
            /\ (~EmitsClause(conds) /\ call.outcome.kind = "return") =>
                  /\ Len(call.outcome.rows) = Len(table)
                  /\ call.outcome.rows = ResultList(backend, call.args.find_data, table)

C12_Witness ==
    /\ call.op = "select_data" /\ call.outcome.kind = "return"
    /\ call.args.conds = << <<>>, <<>> >> /\ call.args.batch_size = 1
    /\ Len(table) = 2
    /\ call.log[1].query.where = <<>> /\ call.log[1].query.limit = <<>>
    /\ Len(call.outcome.rows) = 2

\* the builders alone, negative batch sizes included: LIMIT if and only if
\* the batch size is not zero and a clause was emitted
C12_BuilderLimit ==
    (built.fn = "select" /\ built.done) =>
        /\ built.query.limit # <<>> <=> (built.batch_size # 0 /\ EmitsClause(built.conds))
        /\ built.query.where # <<>> <=> EmitsClause(built.conds)

C12_BuilderWitness ==
    /\ built.fn = "select" /\ built.done /\ built.batch_size = 0 - 1
    /\ built.query.limit = <<0 - 1>>

\* C13: on the embedded backend, an insert_into_table_bulk that returns an
\* error result leaves the table as it was before the call, also when
\* chunks before the failing one were executed, and leaves the connection
\* closed.
C13_SqliteInsertErrorKeepsTable ==
    (/\ backend = "sqlite" /\ call.op = "insert_into_table_bulk"
     /\ call.outcome.status = "error") =>
        /\ table = call.before
        /\ connection = "None"

\* chunk 1 was executed, a record of chunk 2 lacks column b of the first record
C13_Witness ==
    /\ backend = "sqlite" /\ call.op = "insert_into_table_bulk"
    /\ call.args.batch_size = 2
    /\ call.args.records = << <<Item("a", "v1"), Item("b", "v1")>>,
                              <<Item("a", "v1"), Item("b", "v1")>>, <<Item("a", "v2")>> >>
    /\ Len(call.log) = 1 /\ call.log[1].ok
    /\ call.outcome.status = "error"
    /\ call.before # <<>> /\ table = call.before

----------------------------------------------------------------------------
(* SpecPool: one PostgresHandler, concurrent calls of select_data and      *)
(* insert_into_table_bulk on one event loop.  A step runs a coroutine from *)
(* one suspension to the next: a coroutine is suspended only while the     *)
(* driver does I/O (create_pool, fetch / executemany, giving a connection  *)
(* back, Pool.close()); the code between two of them runs without any      *)
(* other call in between.  self.pool is the only state the calls share.    *)
(* Pool.close() of the driver refuses new acquires from the moment it is   *)
(* called and returns when every acquired connection has been given back.  *)

NumTasks == 2
MaxPools == 2

Tasks == 1..NumTasks
PoolIds == 1..MaxPools

Idle == [pc |-> "idle", op |-> "none", conn |-> 0, closing |-> 0, outcome |-> "none"]

At(t, where) == task[t].pc = where

\* close(), up to its await: if self.pool: await self.pool.close()
CloseCalled(tk, p, states) ==
    IF p = 0
    THEN [task |-> [tk EXCEPT !.pc = "done"], poolState |-> states]
    ELSE [task |-> [tk EXCEPT !.pc = "closing", !.closing = p],
          poolState |-> [states EXCEPT ![p] = IF @ = "closed" THEN @ ELSE "closing"]]

\* async with self.pool.acquire() as conn, reached with self.pool = p, up to
\* the await of the statement.  A pool that is closing or closed refuses
\* (InterfaceError): select_data acquires inside its try and goes on to its
\* finally, insert_into_table_bulk acquires outside its try and raises.
Acquired(tk, p, states, counts) ==
    IF states[p] = "open"
    THEN [task |-> [tk EXCEPT !.pc = "executing", !.conn = p],
          poolState |-> states,
          held |-> [counts EXCEPT ![p] = @ + 1]]
    ELSE IF tk.op = "select_data"
    THEN [task |-> CloseCalled([tk EXCEPT !.outcome = "InterfaceError"], p, states).task,
          poolState |-> CloseCalled(tk, p, states).poolState,
          held |-> counts]
    ELSE [task |-> [tk EXCEPT !.pc = "done", !.outcome = "InterfaceError"],
          poolState |-> states,
          held |-> counts]

\* a call starts: await self.connect() finds self.pool set and returns at
\* once, or finds None and awaits asyncpg.create_pool(...)
StartCall(t) ==
    /\ At(t, "idle")
    /\ \E op \in {"select_data", "insert_into_table_bulk"} :
          LET tk == [Idle EXCEPT !.op = op]
          IN  IF pool = 0
              THEN /\ task' = [task EXCEPT ![t] = [tk EXCEPT !.pc = "creating"]]
                   /\ UNCHANGED <<poolState, held>>
              ELSE LET r == Acquired(tk, pool, poolState, held)
                   IN  /\ task' = [task EXCEPT ![t] = r.task]
                       /\ poolState' = r.poolState
                       /\ held' = r.held
    /\ UNCHANGED <<pool, built, backend, connection, table, call>>

\* create_pool returned: self.pool = <the new pool>, whatever self.pool is
\* by now; the call goes on to acquire from self.pool
PoolCreated(t) ==
    /\ At(t, "creating")
    /\ \E p \in PoolIds :
          /\ poolState[p] = "none"
          /\ \A q \in PoolIds : q < p => poolState[q] # "none"
          /\ LET r == Acquired(task[t], p, [poolState EXCEPT ![p] = "open"], held)
             IN  /\ task' = [task EXCEPT ![t] = r.task]
                 /\ poolState' = r.poolState
                 /\ held' = r.held
          /\ pool' = p
    /\ UNCHANGED <<built, backend, connection, table, call>>

\* await conn.fetch(...) / await conn.executemany(...) completes; leaving
\* the async with block starts giving the connection back
Execute(t) ==
    /\ At(t, "executing")
    /\ task' = [task EXCEPT ![t].pc = "releasing", ![t].outcome = "ok"]
    /\ UNCHANGED <<pool, poolState, held, built, backend, connection, table, call>>

\* the connection is back in its pool; select_data runs its finally:
\* await self.close(); insert_into_table_bulk returns
Release(t) ==
    /\ At(t, "releasing")
    /\ held' = [held EXCEPT ![task[t].conn] = @ - 1]
    /\ LET tk == [task[t] EXCEPT !.conn = 0]
       IN  IF tk.op = "select_data"
           THEN /\ task' = [task EXCEPT ![t] = CloseCalled(tk, pool, poolState).task]
                /\ poolState' = CloseCalled(tk, pool, poolState).poolState
           ELSE /\ task' = [task EXCEPT ![t] = [tk EXCEPT !.pc = "done"]]
                /\ poolState' = poolState
    /\ UNCHANGED <<pool, built, backend, connection, table, call>>

\* pool.close() returned: self.pool = None
CloseDone(t) ==
    /\ At(t, "closing")
    /\ held[task[t].closing] = 0
    /\ poolState' = [poolState EXCEPT ![task[t].closing] = "closed"]
    /\ pool' = 0
    /\ task' = [task EXCEPT ![t].pc = "done", ![t].closing = 0]
    /\ UNCHANGED <<held, built, backend, connection, table, call>>

\* the caller gets the result or the exception
CallReturns(t) ==
    /\ At(t, "done")
    /\ task' = [task EXCEPT ![t] = Idle]
    /\ UNCHANGED <<pool, poolState, held, built, backend, connection, table, call>>

InitPool ==
    /\ pool = 0
    /\ poolState = [p \in PoolIds |-> "none"]
    /\ held = [p \in PoolIds |-> 0]
    /\ task = [t \in Tasks |-> Idle]
    /\ BuildIdle /\ HandlerIdle

NextPool ==
    \/ \E t \in Tasks : StartCall(t)
    \/ \E t \in Tasks : PoolCreated(t)
    \/ \E t \in Tasks : Execute(t)
    \/ \E t \in Tasks : Release(t)
    \/ \E t \in Tasks : CloseDone(t)
    \/ \E t \in Tasks : CallReturns(t)

SpecPool == InitPool /\ [][NextPool]_vars

\* C6: on the pooled backend, under any interleaving of concurrent calls on
\* one handler, self.pool is not closed or reset to None while a call is
\* between its connect() and the end of its statement execution, and a call
\* that has passed connect() finds a pool it can acquire from.
C6_PoolUsableInFlight ==
    \A t \in Tasks :
        /\ task[t].pc = "executing" => (pool # 0 /\ poolState[pool] # "closed")
        /\ task[t].outcome # "InterfaceError"

\* the first half alone: self.pool is None while a call executes its statement
C6_PoolNotNoneInFlight ==
    \A t \in Tasks : task[t].pc = "executing" => pool # 0

====
